---- MODULE Spec2Model ----
(***************************************************************************)
(* FitnessPlus member registry (src/index.tsx): the App component's        *)
(* `socios` state, its localStorage snapshot, the registration handler,    *)
(* the remove button, the pricing function and the derived statistics.     *)
(*                                                                         *)
(* Representation                                                          *)
(*  - a text (the value of a form input) is a tuple of one-character       *)
(*    strings, so that parseInt and the browser's form validation are      *)
(*    computed character by character;                                     *)
(*  - a JavaScript number is a record [t, v]: t = "num" carries the        *)
(*    integer v, t = "NaN" is NaN, t = "null" is the JSON null that a NaN  *)
(*    becomes in JSON.stringify;                                           *)
(*  - an amount of money is an integer count of 1/FeeScale currency units, *)
(*    so that x 0.8 and x 1.05 are exact;                                  *)
(*  - crypto.randomUUID() is a fresh value: the counter nextId.            *)
(***************************************************************************)
EXTENDS Integers, Sequences, FiniteSets

VARIABLES
    socios,      \* useState<Socio[]>: the registry, most recent first
    storage,     \* localStorage['fitness_plus_elite_v3']: [saved, value]
    phase,       \* where the component is: "mount", "save", "render", "ready"
    pending,     \* the state update queued by the load effect: [set, value]
    nextId,      \* the next fresh id crypto.randomUUID() hands out
    ops,         \* number of user operations so far (registrations, removals, reloads, askAI)
    lastOp,      \* the last user operation: "none", "register", "remove", "reload", "askAI"
    lastResult,  \* what the last operation told the caller
    calc,        \* one evaluation of calcularImporte: [edad, membresiaId, metodoPago, importe, done]
    loadingAI,   \* useState(false): an askAI call is waiting for its answer
    aiInsight    \* useState<string | null>(null): the advice shown: [t, text]

vars == <<socios, storage, phase, pending, nextId, ops, lastOp, lastResult, calc,
          loadingAI, aiInsight>>

----------------------------------------------------------------------------
(* Bounds of the model *)

\* user operations (successful registrations, removals, page reloads, askAI
\* calls) in one behaviour
MaxOps == 3

\* ages 0..MaxAge are the inputs of the pricing check
MaxAge == 20

----------------------------------------------------------------------------
(* Catalog and constants of the program *)

\* the list of locations with the last one left out
SEDES_WithoutLast == <<"CBA", "ROS", "MDP">>

SEDES == <<"CBA", "ROS", "MDP", "BUE">>

MEMBRESIAS ==
    << [id |-> "BAS", precio |-> 12000, nombre |-> "Basica"],
       [id |-> "STD", precio |-> 18000, nombre |-> "Standard"],
       [id |-> "PRE", precio |-> 25000, nombre |-> "Premium"] >>

MAX_SOCIOS == 390

\* amounts are integers in units of 1/FeeScale
FeeScale == 100

----------------------------------------------------------------------------
(* JavaScript numbers *)

Num(n) == [t |-> "num", v |-> n]

NaN == [t |-> "NaN", v |-> 0]

JsNull == [t |-> "null", v |-> 0]

IsNum(x) == x.t = "num"

\* ToNumber in a relational comparison: null converts to 0, NaN stays NaN
ToNumber(x) == IF x.t = "null" THEN Num(0) ELSE x

\* a < b: false when either side is NaN
JsLt(a, b) ==
    LET x == ToNumber(a)
        y == ToNumber(b)
    IN  IsNum(x) /\ IsNum(y) /\ x.v < y.v

\* a > b: false when either side is NaN
JsGt(a, b) ==
    LET x == ToNumber(a)
        y == ToNumber(b)
    IN  IsNum(x) /\ IsNum(y) /\ x.v > y.v

----------------------------------------------------------------------------
(* Texts and parseInt *)

DigitChars == {"0", "1", "2", "3", "4", "5", "6", "7", "8", "9"}

IsDigit(c) == c \in DigitChars

DigitVal(c) ==
    CASE c = "0" -> 0 [] c = "1" -> 1 [] c = "2" -> 2 [] c = "3" -> 3
      [] c = "4" -> 4 [] c = "5" -> 5 [] c = "6" -> 6 [] c = "7" -> 7
      [] c = "8" -> 8 [] c = "9" -> 9

RECURSIVE SkipSpaces(_)
SkipSpaces(s) ==
    IF s # <<>> /\ Head(s) = " " THEN SkipSpaces(Tail(s)) ELSE s

\* the longest prefix of s made of digits
RECURSIVE LeadingDigits(_)
LeadingDigits(s) ==
    IF s # <<>> /\ IsDigit(Head(s))
    THEN <<Head(s)>> \o LeadingDigits(Tail(s))
    ELSE <<>>

\* the value of a digit string, most significant digit first
RECURSIVE DigitsValue(_, _)
DigitsValue(s, acc) ==
    IF s = <<>> THEN acc ELSE DigitsValue(Tail(s), acc * 10 + DigitVal(Head(s)))

\* parseInt(text): leading white space is skipped, one sign is read, then the
\* longest run of decimal digits; with no digit there the result is NaN.
parseInt(text) ==
    LET s    == SkipSpaces(text)
        neg  == s # <<>> /\ Head(s) = "-"
        body == IF s # <<>> /\ Head(s) \in {"-", "+"} THEN Tail(s) ELSE s
        ds   == LeadingDigits(body)
    IN  IF ds = <<>> THEN NaN
        ELSE Num(IF neg THEN 0 - DigitsValue(ds, 0) ELSE DigitsValue(ds, 0))

----------------------------------------------------------------------------
(* The registration form: <input required type="text"> for nombre and       *)
(* <input required type="number"> for dni and edad.  The browser calls the  *)
(* form's onSubmit handler only when every control is valid.                *)

\* the text without its leading "-"
Unsigned(text) == IF text # <<>> /\ Head(text) = "-" THEN Tail(text) ELSE text

\* what follows the integer digits of an unsigned number text
AfterInteger(text) ==
    LET u == Unsigned(text)
    IN  SubSeq(u, Len(LeadingDigits(u)) + 1, Len(u))

\* the digits after the decimal point (empty when there is none)
FractionDigits(text) ==
    LET rest == AfterInteger(text)
    IN  IF rest # <<>> /\ Head(rest) = "." THEN Tail(rest) ELSE <<>>

\* a valid floating-point number of a number input, without exponent:
\* an optional "-", then digits, or "." and digits, or both
ValidFloat(text) ==
    LET u    == Unsigned(text)
        rest == AfterInteger(text)
        frac == FractionDigits(text)
    IN  \/ rest = <<>> /\ LeadingDigits(u) # <<>>
        \/ /\ rest # <<>>
           /\ Head(rest) = "."
           /\ frac # <<>>
           /\ LeadingDigits(frac) = frac

\* step = 1 (the default): the number has no fractional part
StepMatches(text) ==
    \A i \in 1..Len(FractionDigits(text)) : FractionDigits(text)[i] = "0"

\* a required number input is valid
NumberInputValid(text) == text # <<>> /\ ValidFloat(text) /\ StepMatches(text)

\* the form's constraint validation: onSubmit runs only when this holds
FormValid(form) ==
    /\ form.nombre # <<>>
    /\ NumberInputValid(form.dni)
    /\ NumberInputValid(form.edad)

----------------------------------------------------------------------------
(* Pricing *)

\* MEMBRESIAS.find(m => m.id === membresiaId): the first match, or none
FindMembresia(membresiaId) ==
    LET hits == SelectSeq(MEMBRESIAS, LAMBDA m : m.id = membresiaId)
    IN  IF hits = <<>> THEN [found |-> FALSE, precio |-> 0]
        ELSE [found |-> TRUE, precio |-> Head(hits).precio]

\* the card surcharge taken on the base price instead of the discounted one
calcularImporte_SurchargeOnBase(edad, membresiaId, metodoPago) ==
    LET membresia == FindMembresia(membresiaId)
        costo0 == IF membresia.found THEN membresia.precio * FeeScale ELSE 0
        costo1 == IF JsLt(edad, Num(18)) THEN (costo0 * 8) \div 10 ELSE costo0
        costo2 == IF metodoPago = "tarjeta" THEN costo1 + (costo0 * 5) \div 100 ELSE costo1
    IN  costo2

\* FitnessBusinessLogic.calcularImporte
calcularImporte(edad, membresiaId, metodoPago) ==
    LET membresia == FindMembresia(membresiaId)
        costo0 == IF membresia.found THEN membresia.precio * FeeScale ELSE 0
        costo1 == IF JsLt(edad, Num(18)) THEN (costo0 * 8) \div 10 ELSE costo0
        costo2 == IF metodoPago = "tarjeta" THEN (costo1 * 105) \div 100 ELSE costo1
    IN  costo2

----------------------------------------------------------------------------
(* Members, and their JSON form in localStorage *)

\* the fee computed without the payment method
nuevoSocio_FeeIgnoresPayment(id, form) ==
    [ id         |-> id,
      nombre     |-> form.nombre,
      dni        |-> parseInt(form.dni),
      edad       |-> parseInt(form.edad),
      sede       |-> form.sede,
      membresia  |-> form.membresia,
      metodoPago |-> form.metodoPago,
      importe    |-> calcularImporte(parseInt(form.edad), form.membresia,
                                     "efectivo") ]

\* the object literal `nuevo` of handleRegister
nuevoSocio(id, form) ==
    [ id         |-> id,
      nombre     |-> form.nombre,
      dni        |-> parseInt(form.dni),
      edad       |-> parseInt(form.edad),
      sede       |-> form.sede,
      membresia  |-> form.membresia,
      metodoPago |-> form.metodoPago,
      importe    |-> calcularImporte(parseInt(form.edad), form.membresia,
                                     form.metodoPago) ]

\* JSON.stringify of a number: NaN is written as null
JsonNumber(x) == IF IsNum(x) THEN x ELSE JsNull

\* JSON.stringify(socios): a field-for-field dump
JSONstringify(list) ==
    [ i \in 1..Len(list) |->
        [ list[i] EXCEPT !.dni = JsonNumber(list[i].dni),
                         !.edad = JsonNumber(list[i].edad) ] ]

\* a reader that drops the stored members whose dni is not a number
JSONparse_SkipsInvalid(value) == SelectSeq(value, LAMBDA o : IsNum(o.dni))

\* JSON.parse(saved): the objects as written, null where null was written
JSONparse(value) ==
    [ i \in 1..Len(value) |->
        [ id         |-> value[i].id,
          nombre     |-> value[i].nombre,
          dni        |-> value[i].dni,
          edad       |-> value[i].edad,
          sede       |-> value[i].sede,
          membresia  |-> value[i].membresia,
          metodoPago |-> value[i].metodoPago,
          importe    |-> value[i].importe ] ]

NoSnapshot == [saved |-> FALSE, value |-> <<>>]

Snapshot(list) == [saved |-> TRUE, value |-> JSONstringify(list)]

NoPending == [set |-> FALSE, value |-> <<>>]

----------------------------------------------------------------------------
(* Statistics *)

\* the sum of importe over list[lo..hi], halving the range so that the
\* evaluation stays shallow on a full registry
RECURSIVE SumRange(_, _, _)
SumRange(list, lo, hi) ==
    IF lo > hi THEN 0
    ELSE IF lo = hi THEN list[lo].importe
    ELSE LET mid == (lo + hi) \div 2
         IN  SumRange(list, lo, mid) + SumRange(list, mid + 1, hi)

\* list.reduce((acc, s) => acc + s.importe, 0)
SumImporte(list) == SumRange(list, 1, Len(list))

\* the breakdown restricted to the locations that have members
stats_OnlyOccupied(list) ==
    [ totalRecaudado |-> SumImporte(list),
      sedeBreakdown  |->
        SelectSeq(
          [ k \in 1..Len(SEDES) |->
              LET sSede == SelectSeq(list, LAMBDA s : s.sede = SEDES[k])
              IN  [ name   |-> SEDES[k],
                    count  |-> Len(sSede),
                    income |-> SumImporte(sSede) ] ],
          LAMBDA e : e.count > 0),
      totalSocios    |-> Len(list) ]

\* the useMemo `stats`
stats(list) ==
    [ totalRecaudado |-> SumImporte(list),
      sedeBreakdown  |->
        [ k \in 1..Len(SEDES) |->
            LET sSede == SelectSeq(list, LAMBDA s : s.sede = SEDES[k])
            IN  [ name   |-> SEDES[k],
                  count  |-> Len(sSede),
                  income |-> SumImporte(sSede) ] ],
      totalSocios    |-> Len(list) ]

----------------------------------------------------------------------------
(* Search: filteredSocios, recomputed at every render from socios and the   *)
(* text of the search box                                                   *)

UpperLetters ==
    << "A", "B", "C", "D", "E", "F", "G", "H", "I", "J", "K", "L", "M",
       "N", "O", "P", "Q", "R", "S", "T", "U", "V", "W", "X", "Y", "Z" >>

LowerLetters ==
    << "a", "b", "c", "d", "e", "f", "g", "h", "i", "j", "k", "l", "m",
       "n", "o", "p", "q", "r", "s", "t", "u", "v", "w", "x", "y", "z" >>

\* String.prototype.toLowerCase on the letters A..Z; other characters stay
toLowerCase(text) ==
    [ i \in 1..Len(text) |->
        IF \E k \in 1..26 : UpperLetters[k] = text[i]
        THEN LowerLetters[CHOOSE k \in 1..26 : UpperLetters[k] = text[i]]
        ELSE text[i] ]

\* String.prototype.includes: the needle occurs at some position
includes(hay, needle) ==
    \E k \in 0..(Len(hay) - Len(needle)) :
        SubSeq(hay, k + 1, k + Len(needle)) = needle

DigitChar(d) ==
    CASE d = 0 -> "0" [] d = 1 -> "1" [] d = 2 -> "2" [] d = 3 -> "3"
      [] d = 4 -> "4" [] d = 5 -> "5" [] d = 6 -> "6" [] d = 7 -> "7"
      [] d = 8 -> "8" [] d = 9 -> "9"

\* the decimal digits of a natural number
RECURSIVE NatString(_)
NatString(n) ==
    IF n < 10 THEN <<DigitChar(n)>>
    ELSE NatString(n \div 10) \o <<DigitChar(n % 10)>>

\* Number.prototype.toString: the decimal digits, "NaN" for NaN
toString(x) ==
    IF x.t = "NaN" THEN <<"N", "a", "N">>
    ELSE IF x.v < 0 THEN <<"-">> \o NatString(0 - x.v)
    ELSE NatString(x.v)

\* s.nombre.toLowerCase().includes(searchQuery.toLowerCase())
NameMatches(s, query) == includes(toLowerCase(s.nombre), toLowerCase(query))

\* s.dni.toString().includes(searchQuery)
DniMatches(s, query) == includes(toString(s.dni), query)

\* s.dni.toString() is evaluated, when the name does not match, on a dni
\* that is null (a NaN read back from localStorage): a TypeError
FilterThrows(list, query) ==
    \E i \in 1..Len(list) : ~NameMatches(list[i], query) /\ list[i].dni.t = "null"

\* the filter of a list whose dni strings can all be taken: the name is
\* tried first, the dni only when the name does not match
RowsMatching(list, query) ==
    SelectSeq(list, LAMBDA s : NameMatches(s, query) \/ DniMatches(s, query))

\* filteredSocios for a text of the search box: the rows, or the TypeError
\* that ends the render
filteredSocios(list, query) ==
    IF FilterThrows(list, query)
    THEN [threw |-> TRUE, rows |-> <<>>]
    ELSE [threw |-> FALSE, rows |-> RowsMatching(list, query)]

\* texts of the search box
Queries ==
    { <<>>,
      <<"a", "n">>, <<"A", "N">>,
      <<"n", "a", "n">>, <<"N", "a", "N">>,
      <<"2", "0">>, <<"9", "9">>,
      <<"z">> }

----------------------------------------------------------------------------
(* The advice panel: the values of aiInsight *)

\* useState<string | null>(null)
NoInsight == [t |-> "null", text |-> ""]

\* response.text of an answer that carries no text
UndefinedText == [t |-> "undefined", text |-> ""]

InsightText(text) == [t |-> "text", text |-> text]

\* the message of the catch block
Fallback == InsightText("Error de red neural. Reintentar.")

\* {aiInsight ? .. : ..}: null, undefined and the empty string are falsy
Truthy(insight) == insight.t = "text" /\ insight.text # ""

\* what response.text can be: a text, or undefined
Responses == {InsightText("Abrir las 24 horas."), UndefinedText}

----------------------------------------------------------------------------
(* Inputs: the contents of the form when it is submitted *)

\* useState's initial formData, with the three required fields filled in
BaseForm ==
    [ nombre     |-> <<"A", "n", "a">>,
      dni        |-> <<"2", "0", "0", "0", "0", "0", "0">>,
      edad       |-> <<"1", "8">>,
      sede       |-> "CBA",
      membresia  |-> "BAS",
      metodoPago |-> "efectivo" ]

\* values of the dni input: empty, ".0" (a valid number input whose text
\* starts with no digit), and the four numbers around the accepted range
DniTexts ==
    { <<>>,
      <<".", "0">>,
      <<"1", "9", "9", "9", "9", "9", "9">>,
      <<"2", "0", "0", "0", "0", "0", "0">>,
      <<"5", "9", "9", "9", "9", "9", "9", "9">>,
      <<"6", "0", "0", "0", "0", "0", "0", "0">> }

\* values of the edad input
EdadTexts == { <<>>, <<".", "0">>, <<"1", "7">>, <<"1", "8">> }

\* values of the nombre input
NombreTexts == { <<>>, <<"A", "n", "a">> }

\* choices of the three selects, one per sede
Selections ==
    { [edad |-> <<"1", "7">>, sede |-> "ROS", membresia |-> "STD", metodoPago |-> "tarjeta"],
      [edad |-> <<"1", "8">>, sede |-> "MDP", membresia |-> "PRE", metodoPago |-> "tarjeta"],
      [edad |-> <<"1", "7">>, sede |-> "BUE", membresia |-> "PRE", metodoPago |-> "efectivo"] }

\* the submitted forms: the base form with one text field changed, or with
\* the age and the selects changed
Forms ==
    {[BaseForm EXCEPT !.dni = d] : d \in DniTexts}
      \cup {[BaseForm EXCEPT !.edad = e] : e \in EdadTexts}
      \cup {[BaseForm EXCEPT !.nombre = n] : n \in NombreTexts}
      \cup {[BaseForm EXCEPT !.edad = c.edad, !.sede = c.sede,
                             !.membresia = c.membresia,
                             !.metodoPago = c.metodoPago] : c \in Selections}

\* the members an earlier session registered and left in localStorage: a
\* full registry, most recent first, member i registered with the i-th form
\* of the cycle below
PriorForm(i) ==
    LET c == CASE i % 4 = 0 -> [edad |-> <<"1", "8">>, sede |-> "CBA", membresia |-> "BAS", metodoPago |-> "efectivo"]
               [] i % 4 = 1 -> [edad |-> <<"1", "7">>, sede |-> "ROS", membresia |-> "STD", metodoPago |-> "tarjeta"]
               [] i % 4 = 2 -> [edad |-> <<"1", "8">>, sede |-> "MDP", membresia |-> "PRE", metodoPago |-> "tarjeta"]
               [] i % 4 = 3 -> [edad |-> <<"1", "7">>, sede |-> "BUE", membresia |-> "PRE", metodoPago |-> "efectivo"]
    IN  [BaseForm EXCEPT !.edad = c.edad, !.sede = c.sede,
                         !.membresia = c.membresia, !.metodoPago = c.metodoPago]

PriorSocios ==
    [ i \in 1..MAX_SOCIOS |-> nuevoSocio(MAX_SOCIOS + 1 - i, PriorForm(MAX_SOCIOS + 1 - i)) ]

\* inputs of the pricing check
CalcEdades == {Num(n) : n \in 0..MaxAge} \cup {NaN}

CalcMembresias == {"BAS", "STD", "PRE", "VIP", ""}

CalcMetodos == {"efectivo", "tarjeta", "debito"}

IdleCalc ==
    [edad |-> Num(0), membresiaId |-> "", metodoPago |-> "", importe |-> 0, done |-> TRUE]

----------------------------------------------------------------------------
(* Startup: the two effects of App, in the order they are declared *)

Init ==
    /\ socios = <<>>
    /\ storage \in {NoSnapshot, Snapshot(PriorSocios)}
    /\ phase = "mount"
    /\ pending = NoPending
    /\ nextId = MAX_SOCIOS + 1
    /\ ops = 0
    /\ lastOp = "none"
    /\ lastResult = "none"
    /\ calc = IdleCalc
    /\ loadingAI = FALSE
    /\ aiInsight = NoInsight

\* useEffect(() => { const saved = getItem(..); if (saved) setSocios(JSON.parse(saved)) }, [])
\* setSocios queues the update; the render that applies it comes after the effects
LoadEffect ==
    /\ phase = "mount"
    /\ pending' = IF storage.saved
                  THEN [set |-> TRUE, value |-> JSONparse(storage.value)]
                  ELSE pending
    /\ phase' = "save"
    /\ UNCHANGED <<socios, storage, nextId, ops, lastOp, lastResult, calc, loadingAI, aiInsight>>

\* useEffect(() => { setItem(.., JSON.stringify(socios)) }, [socios]), after
\* the first render and after the render that applies the loaded members
SaveEffect ==
    /\ phase = "save"
    /\ storage' = Snapshot(socios)
    /\ phase' = IF pending.set THEN "render" ELSE "ready"
    /\ UNCHANGED <<socios, pending, nextId, ops, lastOp, lastResult, calc, loadingAI, aiInsight>>

\* the render that applies the update queued by the load effect
Render ==
    /\ phase = "render"
    /\ socios' = pending.value
    /\ pending' = NoPending
    /\ phase' = "save"
    /\ UNCHANGED <<storage, nextId, ops, lastOp, lastResult, calc, loadingAI, aiInsight>>

----------------------------------------------------------------------------
(* User operations.  A discrete event's handler, the render it causes and   *)
(* the save effect of that render run before the next event is handled.     *)

\* alert("Error: DNI invalido ..."), and return
RejectDni ==
    /\ lastOp' = "register"
    /\ lastResult' = "InvalidNationalId"
    /\ UNCHANGED <<socios, storage, phase, pending, nextId, ops, calc, loadingAI, aiInsight>>

\* alert("Alerta: Capacidad maxima excedida."), and return
RejectCapacity ==
    /\ lastOp' = "register"
    /\ lastResult' = "CapacityExceeded"
    /\ UNCHANGED <<socios, storage, phase, pending, nextId, ops, calc, loadingAI, aiInsight>>

\* the new member put last: setSocios([...socios, nuevo])
AddSocio_Append(form) ==
    /\ ops < MaxOps
    /\ socios' = socios \o <<nuevoSocio(nextId, form)>>
    /\ storage' = Snapshot(socios')
    /\ nextId' = nextId + 1
    /\ ops' = ops + 1
    /\ lastOp' = "register"
    /\ lastResult' = "Ok"
    /\ UNCHANGED <<phase, pending, calc, loadingAI, aiInsight>>

\* setSocios([nuevo, ...socios]), then the save effect
AddSocio(form) ==
    /\ ops < MaxOps
    /\ socios' = <<nuevoSocio(nextId, form)>> \o socios
    /\ storage' = Snapshot(socios')
    /\ nextId' = nextId + 1
    /\ ops' = ops + 1
    /\ lastOp' = "register"
    /\ lastResult' = "Ok"
    /\ UNCHANGED <<phase, pending, calc, loadingAI, aiInsight>>

\* handleRegister without its capacity check
handleRegister_NoCapacityCheck(form) ==
    LET dni == parseInt(form.dni)
    IN  IF JsLt(dni, Num(2000000)) \/ JsGt(dni, Num(59999999))
        THEN RejectDni
        ELSE AddSocio(form)

\* handleRegister with > for >= in its capacity check
handleRegister_OffByOne(form) ==
    LET dni == parseInt(form.dni)
    IN  IF JsLt(dni, Num(2000000)) \/ JsGt(dni, Num(59999999))
        THEN RejectDni
        ELSE IF Len(socios) > MAX_SOCIOS
             THEN RejectCapacity
             ELSE AddSocio(form)

\* handleRegister with its two checks in the other order
handleRegister_CapacityFirst(form) ==
    LET dni == parseInt(form.dni)
    IN  IF Len(socios) >= MAX_SOCIOS
        THEN RejectCapacity
        ELSE IF JsLt(dni, Num(2000000)) \/ JsGt(dni, Num(59999999))
             THEN RejectDni
             ELSE AddSocio(form)

\* handleRegister, called with the submitted form
handleRegister(form) ==
    LET dni == parseInt(form.dni)
    IN  IF JsLt(dni, Num(2000000)) \/ JsGt(dni, Num(59999999))
        THEN RejectDni
        ELSE IF Len(socios) >= MAX_SOCIOS
             THEN RejectCapacity
             ELSE AddSocio(form)

\* the browser does not call onSubmit: it reports the invalid control
BlockSubmit ==
    /\ lastOp' = "register"
    /\ lastResult' = "MissingRequiredField"
    /\ UNCHANGED <<socios, storage, phase, pending, nextId, ops, calc, loadingAI, aiInsight>>

\* a click on "Validar y Registrar"
Submit(form) ==
    /\ phase = "ready"
    /\ IF FormValid(form) THEN handleRegister(form) ELSE BlockSubmit

\* a filter that also drops the members added after the one removed
WithoutId_KeepsOlderOnly(list, id) == SelectSeq(list, LAMBDA x : x.id < id)

\* socios.filter(x => x.id !== id)
WithoutId(list, id) == SelectSeq(list, LAMBDA x : x.id # id)

\* onClick of a row's remove button: () => setSocios(socios.filter(..)),
\* which returns undefined; then the save effect
Remove(id) ==
    /\ phase = "ready"
    /\ ops < MaxOps
    /\ socios' = WithoutId(socios, id)
    /\ storage' = Snapshot(socios')
    /\ ops' = ops + 1
    /\ lastOp' = "remove"
    /\ lastResult' = "undefined"
    /\ UNCHANGED <<phase, pending, nextId, calc, loadingAI, aiInsight>>

\* the ids Remove is tried with: the first, second and last row, and an id
\* that no member has
RemoveIds ==
    {socios[i].id : i \in {1, 2, Len(socios)} \cap (1..Len(socios))} \cup {nextId}

\* the page is loaded again: the component state is lost, localStorage stays
Reload ==
    /\ phase = "ready"
    /\ ops < MaxOps
    /\ socios' = <<>>
    /\ pending' = NoPending
    /\ phase' = "mount"
    /\ ops' = ops + 1
    /\ lastOp' = "reload"
    /\ lastResult' = "none"
    /\ loadingAI' = FALSE
    /\ aiInsight' = NoInsight
    /\ UNCHANGED <<storage, nextId, calc>>

----------------------------------------------------------------------------
(* The advisory call: askAI and the promise it waits for *)

\* onClick={askAI}, the request sent: the button is there when no advice is
\* shown, and enabled when no call is waiting.  setLoadingAI(true).
AskAIStart ==
    /\ phase = "ready"
    /\ ops < MaxOps
    /\ ~Truthy(aiInsight)
    /\ ~loadingAI
    /\ loadingAI' = TRUE
    /\ ops' = ops + 1
    /\ lastOp' = "askAI"
    /\ lastResult' = "none"
    /\ UNCHANGED <<socios, storage, phase, pending, nextId, calc, aiInsight>>

\* onClick={askAI}, with new GoogleGenAI(..) or generateContent(..) throwing
\* before the await: setLoadingAI(true), the catch and the finally are one
\* batch of updates
AskAIThrows ==
    /\ phase = "ready"
    /\ ops < MaxOps
    /\ ~Truthy(aiInsight)
    /\ ~loadingAI
    /\ aiInsight' = Fallback
    /\ loadingAI' = FALSE
    /\ ops' = ops + 1
    /\ lastOp' = "askAI"
    /\ lastResult' = "none"
    /\ UNCHANGED <<socios, storage, phase, pending, nextId, calc>>

\* a failure handler without the finally block
AIReject_KeepsLoading ==
    /\ loadingAI
    /\ aiInsight' = Fallback
    /\ UNCHANGED <<socios, storage, phase, pending, nextId, ops, lastOp, lastResult,
                   calc, loadingAI>>

\* the promise is fulfilled: setAiInsight(response.text); setLoadingAI(false)
AIResolve(response) ==
    /\ loadingAI
    /\ aiInsight' = response
    /\ loadingAI' = FALSE
    /\ UNCHANGED <<socios, storage, phase, pending, nextId, ops, lastOp, lastResult, calc>>

\* the promise is rejected: catch { setAiInsight("Error de red neural. Reintentar.") }
\* finally { setLoadingAI(false) }
AIReject ==
    /\ loadingAI
    /\ aiInsight' = Fallback
    /\ loadingAI' = FALSE
    /\ UNCHANGED <<socios, storage, phase, pending, nextId, ops, lastOp, lastResult, calc>>

\* "Nuevo analisis": onClick={() => setAiInsight(null)}
ClearInsight ==
    /\ phase = "ready"
    /\ Truthy(aiInsight)
    /\ aiInsight' = NoInsight
    /\ UNCHANGED <<socios, storage, phase, pending, nextId, ops, lastOp, lastResult,
                   calc, loadingAI>>

Next ==
    \/ LoadEffect
    \/ SaveEffect
    \/ Render
    \/ \E form \in Forms : Submit(form)
    \/ \E id \in RemoveIds : Remove(id)
    \/ Reload
    \/ AskAIStart
    \/ AskAIThrows
    \/ \E response \in Responses : AIResolve(response)
    \/ AIReject
    \/ ClearInsight

Spec == Init /\ [][Next]_vars

----------------------------------------------------------------------------
(* The pricing function on its own: inputs drawn at the start, one          *)
(* evaluation of calcularImporte.                                           *)

InitFee ==
    /\ socios = <<>>
    /\ storage = NoSnapshot
    /\ phase = "mount"
    /\ pending = NoPending
    /\ nextId = MAX_SOCIOS + 1
    /\ ops = 0
    /\ lastOp = "none"
    /\ lastResult = "none"
    /\ calc \in [ edad : CalcEdades, membresiaId : CalcMembresias,
                  metodoPago : CalcMetodos, importe : {0}, done : {FALSE} ]
    /\ loadingAI = FALSE
    /\ aiInsight = NoInsight

CalcFee ==
    /\ ~calc.done
    /\ calc' = [calc EXCEPT !.importe = calcularImporte(calc.edad, calc.membresiaId,
                                                        calc.metodoPago),
                            !.done = TRUE]
    /\ UNCHANGED <<socios, storage, phase, pending, nextId, ops, lastOp, lastResult,
                   loadingAI, aiInsight>>

NextFee == CalcFee

SpecFee == InitFee /\ [][NextFee]_vars

----------------------------------------------------------------------------
(* Vocabulary of the claims *)

DNI_MIN == 2000000

DNI_MAX == 59999999

\* the text is a plain decimal integer: one or more digits and nothing else
IsIntegerText(text) == text # <<>> /\ \A i \in 1..Len(text) : IsDigit(text[i])

\* the integer a plain decimal text denotes
IntegerOf(text) == DigitsValue(text, 0)

\* the request carries a name, a numeric nationalId and a numeric age
FieldsPresent(form) ==
    /\ form.nombre # <<>>
    /\ IsIntegerText(form.dni)
    /\ IsIntegerText(form.edad)

InRange(n) == DNI_MIN <= n /\ n <= DNI_MAX

\* the ordered checks of the registration decision, for a request whose
\* required fields are present
Decision(form, size) ==
    IF ~InRange(IntegerOf(form.dni)) THEN "InvalidNationalId"
    ELSE IF size >= MAX_SOCIOS THEN "CapacityExceeded"
    ELSE "Ok"

Ids(list) == {list[i].id : i \in 1..Len(list)}

----------------------------------------------------------------------------
(* C1 *)

\* C1: in every reachable state the registry holds at most MAX_SOCIOS = 390
\* members, whether it was created empty, hydrated from the stored snapshot
\* or changed by registrations and removals.
C1_SizeInvariant == Len(socios) <= MAX_SOCIOS

\* a registration was attempted on a full registry
C1_Witness ==
    /\ Len(socios) = MAX_SOCIOS
    /\ lastOp = "register"
    /\ lastResult = "CapacityExceeded"

----------------------------------------------------------------------------
(* C2 *)

\* a step that registers a request with present fields and an id in range
ValidSubmit(form) ==
    FieldsPresent(form) /\ InRange(IntegerOf(form.dni)) /\ Submit(form)

C2_Step ==
    /\ \A form \in Forms :
         ValidSubmit(form) /\ Len(socios) = MAX_SOCIOS
           => lastResult' = "CapacityExceeded" /\ socios' = socios
    /\ \A id \in RemoveIds :
         Remove(id) /\ id \in Ids(socios) /\ Len(socios) = MAX_SOCIOS
           => Len(socios') = MAX_SOCIOS - 1
    /\ \A form \in Forms :
         ValidSubmit(form) /\ Len(socios) = MAX_SOCIOS - 1
           => lastResult' = "Ok" /\ Len(socios') = MAX_SOCIOS

\* C2: on a registry of exactly 390 members a valid registration is rejected
\* with CapacityExceeded and changes nothing; removing one existing member
\* leaves 389, the next valid registration succeeds and fills the registry
\* again, so that the one after it is rejected with CapacityExceeded.
C2_CapacityCycle == [][C2_Step]_vars

\* started full; one removal and one successful registration later a further
\* registration has been rejected for capacity
C2_Witness ==
    /\ Len(socios) = MAX_SOCIOS
    /\ ops = 2
    /\ nextId = MAX_SOCIOS + 2
    /\ lastOp = "register"
    /\ lastResult = "CapacityExceeded"

----------------------------------------------------------------------------
(* C3 *)

\* C3: every member of the registry has a nationalId that is an integer in
\* [2,000,000, 59,999,999], whatever text the nationalId field held when the
\* member was registered.
C3_DniInRange ==
    \A i \in 1..Len(socios) : IsNum(socios[i].dni) /\ InRange(socios[i].dni.v)

----------------------------------------------------------------------------
(* C4 *)

C4_Step ==
    \A form \in Forms :
        FieldsPresent(form) /\ Submit(form)
          => /\ lastResult' = Decision(form, Len(socios))
             /\ lastResult' # "Ok" => socios' = socios /\ storage' = storage

\* C4: for a request with all required fields present the result is
\* InvalidNationalId exactly when the id is below 2,000,000 or above
\* 59,999,999 (whatever the registry size), CapacityExceeded exactly when the
\* id is in range and the registry holds 390 members or more, Ok otherwise;
\* every rejection leaves the registry and its snapshot unchanged.
C4_OrderedChecks == [][C4_Step]_vars

\* an out-of-range id was submitted on a full registry
C4_Witness ==
    /\ Len(socios) = MAX_SOCIOS
    /\ lastOp = "register"
    /\ lastResult = "InvalidNationalId"

----------------------------------------------------------------------------
(* C5 *)

\* the request lacks a required field: no name, or a nationalId or age text
\* from which no number is read
FieldMissing(form) ==
    \/ form.nombre = <<>>
    \/ ~IsNum(parseInt(form.dni))
    \/ ~IsNum(parseInt(form.edad))

C5_Step ==
    \A form \in Forms :
        FieldMissing(form) /\ Submit(form)
          => lastResult' = "MissingRequiredField" /\ socios' = socios

\* C5: a request whose fullName is empty, or whose nationalId or age is
\* missing or not numeric, is rejected with MissingRequiredField and adds no
\* member.
C5_MissingRejected == [][C5_Step]_vars

----------------------------------------------------------------------------
(* C6 *)

\* the catalog prices as the claim lists them; 0 for any other plan id
BasePrice(planId) ==
    CASE planId = "BAS" -> 12000
      [] planId = "STD" -> 18000
      [] planId = "PRE" -> 25000
      [] OTHER -> 0

IsMinor(edad) == IsNum(edad) /\ edad.v < 18

\* 10000 x computeFee: the base price, x 0.8 for a minor, then x 1.05 for card
ExpectedFee(edad, planId, metodoPago) ==
    BasePrice(planId) * (IF IsMinor(edad) THEN 80 ELSE 100)
                      * (IF metodoPago = "tarjeta" THEN 105 ELSE 100)

\* the amount in 1/10000 units
Scaled(importe) == importe * (10000 \div FeeScale)

\* C6: for every age, plan id and payment method the fee is the base price of
\* the plan (0 for a plan that is not in the catalog), times 0.8 exactly when
\* the age is below 18, then times 1.05 exactly when the payment is by card.
C6_FeeFormula ==
    calc.done =>
        Scaled(calc.importe) = ExpectedFee(calc.edad, calc.membresiaId, calc.metodoPago)

\* a minor paying the basic plan by card: 12000 x 0.8 x 1.05 = 10080
C6_Witness ==
    /\ calc.done
    /\ calc.edad = Num(17)
    /\ calc.membresiaId = "BAS"
    /\ calc.metodoPago = "tarjeta"
    /\ calc.importe = 10080 * FeeScale

----------------------------------------------------------------------------
(* C7 *)

C7_FeeOfOwnFields ==
    \A i \in 1..Len(socios) :
        Scaled(socios[i].importe)
          = ExpectedFee(socios[i].edad, socios[i].membresia, socios[i].metodoPago)

\* a registration or a removal leaves every member it keeps as it was
C7_Step ==
    /\ \A form \in Forms :
         Submit(form) => socios' = socios \/ Tail(socios') = socios
    /\ \A id \in RemoveIds :
         Remove(id) => \A i \in 1..Len(socios') :
                          \E j \in 1..Len(socios) : socios'[i] = socios[j]

\* C7: every member's feeAmount is the fee of its own stored age, plan and
\* payment method, and no later registration or removal changes a field of a
\* member already in the registry.
C7_FeeFixedAtCreation == []C7_FeeOfOwnFields /\ [][C7_Step]_vars

\* a discounted card payer is still in the registry, unchanged, after a
\* later registration
C7_Witness ==
    /\ lastOp = "register"
    /\ lastResult = "Ok"
    /\ Len(socios) = 2
    /\ socios[2].edad = Num(17)
    /\ socios[2].metodoPago = "tarjeta"
    /\ socios[2].importe = 15120 * FeeScale

----------------------------------------------------------------------------
(* C8 *)

\* the registry is ordered by recency: ids are handed out in increasing
\* order, so a more recent member has the larger id
C8_MostRecentFirst ==
    \A i \in 1..Len(socios) - 1 : socios[i].id > socios[i + 1].id

C8_Step ==
    \A form \in Forms :
        Submit(form) /\ lastResult' = "Ok"
          => /\ Len(socios') = Len(socios) + 1
             /\ Tail(socios') = socios
             /\ Head(socios').id \notin Ids(socios)
             /\ Head(socios').nombre = form.nombre

\* C8: a successful registration puts the new member first and keeps the
\* earlier members after it in their order; the count grows by exactly 1 and
\* the list is always most-recently-added first.
C8_AddToFront == []C8_MostRecentFirst /\ [][C8_Step]_vars

\* two registrations in a row: the second is in front of the first
C8_Witness ==
    /\ lastOp = "register"
    /\ lastResult = "Ok"
    /\ Len(socios) = 2
    /\ nextId = MAX_SOCIOS + 3
    /\ socios[1].id = MAX_SOCIOS + 2
    /\ socios[2].id = MAX_SOCIOS + 1

----------------------------------------------------------------------------
(* C9 *)

\* the list is `before` with the one member of that id taken out
RemovedFrom(before, id, after) ==
    \E k \in 1..Len(before) :
        /\ before[k].id = id
        /\ after = SubSeq(before, 1, k - 1) \o SubSeq(before, k + 1, Len(before))

C9_Effect(id) ==
    IF id \in Ids(socios)
    THEN RemovedFrom(socios, id, socios') /\ Len(socios') = Len(socios) - 1
    ELSE socios' = socios

\* C9 as stated: removal deletes the member of that id and keeps the others
\* in order; with an id no member has it changes nothing and returns false.
C9_ReturnsFalse ==
    [][\A id \in RemoveIds :
          Remove(id) => /\ C9_Effect(id)
                        /\ id \notin Ids(socios) => lastResult' = "false"]_vars

\* C9 amended: removal deletes the member of that id and keeps the others in
\* order; with an id no member has it changes nothing and never fails; the
\* handler returns no value (undefined) whether or not a member was removed.
C9_RemoveEffect ==
    [][\A id \in RemoveIds :
          Remove(id) => C9_Effect(id) /\ lastResult' = "undefined"]_vars

\* a member was removed from the full registry
C9_Witness ==
    /\ lastOp = "remove"
    /\ Len(socios) = MAX_SOCIOS - 1
    /\ storage.saved
    /\ Len(storage.value) = MAX_SOCIOS - 1

----------------------------------------------------------------------------
(* C10 *)

\* number of members of a location
CountAt(list, code) == Cardinality({i \in 1..Len(list) : list[i].sede = code})

\* amount x (number of members of the given locations that owe it), summed
\* over a set of amounts
RECURSIVE IncomeByAmount(_, _, _)
IncomeByAmount(list, codes, amounts) ==
    IF amounts = {} THEN 0
    ELSE LET a == CHOOSE x \in amounts : TRUE
         IN  a * Cardinality({i \in 1..Len(list) :
                                 list[i].sede \in codes /\ list[i].importe = a})
               + IncomeByAmount(list, codes, amounts \ {a})

\* sum of the fees of the members that are in the given locations
IncomeOf(list, codes) ==
    IncomeByAmount(list, codes, {list[i].importe : i \in 1..Len(list)})

LocationOrder == <<"CBA", "ROS", "MDP", "BUE">>

\* C10: summarize gives the number of members, the sum of all fees, and one
\* entry per location code CBA, ROS, MDP, BUE in that order with the count
\* and the fee sum of that location's members, zero where it has none.
C10_Summary ==
    LET st == stats(socios)
    IN  /\ st.totalSocios = Len(socios)
        /\ st.totalRecaudado
             = IncomeOf(socios, {socios[i].sede : i \in 1..Len(socios)})
        /\ Len(st.sedeBreakdown) = 4
        /\ \A k \in 1..4 :
             /\ st.sedeBreakdown[k].name = LocationOrder[k]
             /\ st.sedeBreakdown[k].count = CountAt(socios, LocationOrder[k])
             /\ st.sedeBreakdown[k].income
                  = IncomeOf(socios, {LocationOrder[k]})
        /\ socios = <<>> =>
             /\ st.totalSocios = 0
             /\ st.totalRecaudado = 0
             /\ \A k \in 1..4 : st.sedeBreakdown[k].count = 0
                                /\ st.sedeBreakdown[k].income = 0

\* two members in two locations: the other two entries are zero
C10_Witness ==
    /\ Len(socios) = 2
    /\ stats(socios).sedeBreakdown[1].count = 1
    /\ stats(socios).sedeBreakdown[2].count = 1
    /\ stats(socios).sedeBreakdown[3] = [name |-> "MDP", count |-> 0, income |-> 0]
    /\ stats(socios).sedeBreakdown[4] = [name |-> "BUE", count |-> 0, income |-> 0]
    /\ stats(socios).totalRecaudado = (12000 + 15120) * FeeScale

----------------------------------------------------------------------------
(* C11 *)

\* the decimal string of a nationalId that is a number; none otherwise
HasDecimalString(x) == IsNum(x)

\* the member matches: the lower-cased query occurs in the lower-cased name
\* or in the decimal string of the nationalId
Matches(s, query) ==
    \/ includes(toLowerCase(s.nombre), toLowerCase(query))
    \/ HasDecimalString(s.dni) /\ includes(NatString(s.dni.v), toLowerCase(query))

\* the positions of the members that match, in increasing order
MatchingPositions(list, query) == {i \in 1..Len(list) : Matches(list[i], query)}

\* rows is the list cut down to the given positions, in the list's order
IsRestriction(rows, list, positions) ==
    /\ Len(rows) = Cardinality(positions)
    /\ \A i \in 1..Len(rows) :
         \E p \in positions :
            /\ rows[i] = list[p]
            /\ Cardinality({q \in positions : q < p}) = i - 1

\* C11: for every query the filter returns exactly the matching members, in
\* the registry's order; the empty query returns every member, and two
\* queries that differ only in letter case return the same rows.
C11_FilterExact ==
    /\ \A q \in Queries :
         /\ ~filteredSocios(socios, q).threw
         /\ IsRestriction(filteredSocios(socios, q).rows, socios,
                          MatchingPositions(socios, q))
    /\ filteredSocios(socios, <<>>).rows = socios
    /\ \A q1, q2 \in Queries :
         toLowerCase(q1) = toLowerCase(q2)
           => filteredSocios(socios, q1) = filteredSocios(socios, q2)

----------------------------------------------------------------------------
(* C12 *)

\* a successful registration or a removal has just been handled
RegistryChanged ==
    \/ \E form \in Forms : Submit(form) /\ lastResult' = "Ok"
    \/ \E id \in RemoveIds : Remove(id)

\* what is stored is the registry: the same members in the same order
SnapshotIsRegistry == storage.saved /\ storage.value = socios

C12_Step == RegistryChanged => SnapshotIsRegistry'

\* C12: after every successful registration and every removal the stored
\* snapshot equals the registry, member for member and in order; while the
\* page is handling user operations the two never differ.
C12_SavedAfterEveryChange ==
    [](phase = "ready" => SnapshotIsRegistry) /\ [][C12_Step]_vars

----------------------------------------------------------------------------
(* C13 *)

\* what load() hands to hydrate is the stored value, member for member; with
\* nothing stored there is no hydration, and the registry stays empty until
\* the page is ready
C13_Load ==
    LoadEffect =>
        IF storage.saved
        THEN pending'.set /\ pending'.value = storage.value
        ELSE ~pending'.set /\ socios = <<>> /\ socios' = <<>>

\* the loaded members wait unchanged for the render that applies them
C13_Hold == SaveEffect => pending' = pending /\ socios' = socios

\* the render replaces the whole registry by the loaded members, whatever
\* they are
C13_Hydrate == Render => pending.set /\ socios' = pending.value

\* nothing stored: the startup ends with the registry empty
C13_NothingStored ==
    SaveEffect /\ ~pending.set /\ lastOp \in {"none", "reload"}
      => phase' = "ready" /\ socios' = socios

C13_Step == C13_Load /\ C13_Hold /\ C13_Hydrate /\ C13_NothingStored

\* between the load and the render the registry is empty and the loaded
\* members are the ones that were read
C13_Loaded ==
    pending.set => /\ phase \in {"save", "render"}
                   /\ socios = <<>>
                   /\ phase = "save" => pending.value = storage.value

\* C13: at startup the registry is replaced by exactly the stored members in
\* the stored order, without validation; with nothing stored it stays empty.
C13_RoundTrip == []C13_Loaded /\ [][C13_Step]_vars

\* a stored snapshot holding a member whose dni is null has just been applied
C13_Witness ==
    /\ lastOp = "reload"
    /\ phase = "save"
    /\ ~pending.set
    /\ Len(socios) = 1
    /\ socios[1].dni = JsNull

----------------------------------------------------------------------------
(* C14 *)

\* a step of the advisory call: its start, its completion, its failure
AdvisoryStep ==
    \/ AskAIStart
    \/ AskAIThrows
    \/ \E response \in Responses : AIResolve(response)
    \/ AIReject

\* the call ends in failure, before or after the request was sent
AdvisoryFails == AskAIThrows \/ AIReject

\* the call ends, either way
AdvisoryEnds == AdvisoryFails \/ \E response \in Responses : AIResolve(response)

\* the registry is changed while the call waits
ChangedInFlight ==
    /\ loadingAI
    /\ \/ \E form \in Forms : Submit(form)
       \/ \E id \in RemoveIds : Remove(id)

C14_Step ==
    /\ AdvisoryStep => /\ socios' = socios
                       /\ storage' = storage
                       /\ nextId' = nextId
    /\ AdvisoryFails => /\ aiInsight' = InsightText("Error de red neural. Reintentar.")
                        /\ lastResult' \in {lastResult, "none"}
    /\ AdvisoryEnds => ~loadingAI'
    /\ ChangedInFlight => loadingAI' /\ aiInsight' = aiInsight

\* a call waits only on a loaded page, and the registry operations are
\* open to the user while it waits
C14_InFlight == loadingAI => phase = "ready" /\ lastOp # "reload"

\* C14: however the advisory call interleaves with registrations and
\* removals, its own steps never change the registry or the stored snapshot;
\* a failure gives the fixed fallback text and no error result, and the
\* loading flag is cleared when the call ends either way.
C14_AdvisoryIsolated == []C14_InFlight /\ [][C14_Step]_vars

\* a call is waiting for its answer and a member has been registered and
\* saved since it was started
C14_Witness ==
    /\ loadingAI
    /\ lastOp = "register"
    /\ lastResult = "Ok"
    /\ ops = 2
    /\ Len(socios) = 1
    /\ storage.saved
    /\ Len(storage.value) = 1

----------------------------------------------------------------------------
(* C15 *)

\* the page is starting with a non-empty snapshot in the store, and the
\* loaded members are not yet in the registry
Hydrating ==
    /\ storage.saved
    /\ storage.value # <<>>
    /\ \/ phase = "mount"
       \/ pending.set

C15_Step == Hydrating => storage' = storage

\* C15: from the start of the page until the loaded members are in the
\* registry, the stored snapshot is not written over: no step taken before
\* the hydration has completed changes a non-empty stored value.
C15_StoreKeptUntilHydrated == [][C15_Step]_vars

----------------------------------------------------------------------------
(* C16 *)

\* the sum of the counts of the entries 1..n of a breakdown
RECURSIVE SumCounts(_, _)
SumCounts(breakdown, n) ==
    IF n = 0 THEN 0 ELSE breakdown[n].count + SumCounts(breakdown, n - 1)

\* the sum of the incomes of the entries 1..n of a breakdown
RECURSIVE SumIncomes(_, _)
SumIncomes(breakdown, n) ==
    IF n = 0 THEN 0 ELSE breakdown[n].income + SumIncomes(breakdown, n - 1)

\* C16: the per-location entries of the summary add up to its totals, in
\* count and in income, and every member of the registry belongs to exactly
\* one entry.
C16_BreakdownAddsUp ==
    LET st == stats(socios)
        breakdown == st.sedeBreakdown
    IN  /\ SumCounts(breakdown, Len(breakdown)) = st.totalSocios
        /\ SumIncomes(breakdown, Len(breakdown)) = st.totalRecaudado
        /\ \A i \in 1..Len(socios) :
              Cardinality({k \in 1..Len(breakdown) :
                              breakdown[k].name = socios[i].sede}) = 1

\* a full registry whose newest member was registered in this session, with
\* members in all four locations
C16_Witness ==
    /\ Len(socios) = MAX_SOCIOS
    /\ lastOp = "register"
    /\ lastResult = "Ok"
    /\ socios[1].id > MAX_SOCIOS
    /\ \A k \in 1..4 : stats(socios).sedeBreakdown[k].count > 0
    /\ stats(socios).totalSocios = MAX_SOCIOS

====
